---- MODULE Spec2Model ----
(***************************************************************************)
(* Model of the proposal / contract workflow of backend/api: the project,  *)
(* proposal and contract tables, and the request handlers of               *)
(* ProjectViewSet and ProposalViewSet (views.py) with ProposalSerializer   *)
(* and ProjectSerializer (serializers.py).                                 *)
(*                                                                         *)
(* Every handler is split at its database statements: a request occupies a *)
(* slot of `requests`, and each action is one statement of the handler     *)
(* together with the Python code up to the next statement.  Statements     *)
(* outside transaction.atomic() commit at once.  Statements inside it      *)
(* write to the request's own uncommitted write set, which other requests  *)
(* do not read (READ COMMITTED); a row written by an open transaction      *)
(* is locked against other writers until commit or rollback.               *)
(***************************************************************************)
EXTENDS Integers, Sequences, FiniteSets, Bags, TLC

\* ---- bounds of the model ----
MaxProjects == 1
MaxProposals == 2
MaxRequests == 2

Clients == {"c1", "c2"}
Freelancers == {"f1", "f2"}
Users == Clients \cup Freelancers
\* the users who ask to create a project: c2 stands for a client who owns
\* none (c1 and c2 are interchangeable as the owner of the first project)
Creators == Users \ {"c2"}
Rates == {50, 60}
Budgets == {100, 200}

VARIABLES
    projects,       \* Project table: id -> [client, status, budget]
    proposals,      \* Proposal table: id -> [project, freelancer, proposed_rate, status]
    contracts,      \* Contract table: sequence of [project, freelancer, agreed_rate]
    project_seq,    \* last auto-increment id of the Project table
    proposal_seq,   \* last auto-increment id of the Proposal table
    requests        \* bag of the requests in flight and of the finished one

db == <<projects, proposals, contracts, project_seq, proposal_seq>>

vars == <<projects, proposals, contracts, project_seq, proposal_seq, requests>>

\* staff users: a0 has no profile, a1 has a client profile and a2 a
\* freelancer profile
StaffUsers == {"a0", "a1", "a2"}

\* n0 is a user without a profile who is not staff
Actors == Users \cup StaffUsers \cup {"n0"}

\* User.is_staff
is_staff(u) == u \in StaffUsers

\* Profile.user_type of a user (fixed after registration), "" for a user
\* without a profile
user_type(u) ==
    IF u \in Clients \cup {"a1"} THEN "client"
    ELSE IF u \in Freelancers \cup {"a2"} THEN "freelancer"
    ELSE ""

NoProposal == [project |-> 0, freelancer |-> "", proposed_rate |-> 0, status |-> ""]

NoProject == [client |-> "", status |-> "", budget |-> 0]

NoWrites == [p \in {} |-> ""]

\* A request: the handler's position (pc), its arguments, the objects it
\* holds in memory (obj), the uncommitted writes of its transaction
\* (tx_proposals, tx_contract, and tx_events for the notifications) and,
\* once it is finished, the notifications it has made visible (events) and
\* the ids of the rows a list request returns (rows).
NewRequest(action, user) ==
    [pc |-> "new", action |-> action, user |-> user, pk |-> 0, project |-> 0,
     new_status |-> "", obj |-> NoProposal, project_obj |-> NoProject,
     tx_proposals |-> NoWrites,
     tx_contract |-> FALSE, tx_events |-> {}, resp |-> "", detail |-> "",
     events |-> {}, rows |-> {}]

\* A finished request: its arguments and its response.
Done(req, resp, detail) ==
    [req EXCEPT !.pc = "done", !.resp = resp, !.detail = detail,
                !.obj = NoProposal, !.project_obj = NoProject,
                !.tx_proposals = NoWrites,
                !.tx_contract = FALSE, !.tx_events = {}, !.events = {}]

Requests == BagToSet(requests)

\* the finished request, whose response is being sent
Finished == [q \in {x \in Requests : x.pc = "done"} |-> requests[q]]

\* a new request arrives: at most MaxRequests requests are in flight
Begin(req) ==
    /\ Finished = EmptyBag
    /\ BagCardinality(requests) < MaxRequests
    /\ requests' = requests (+) SetToBag({req})

\* request req moves on to req2
Step(req, req2) ==
    /\ Finished = EmptyBag
    /\ requests' = (requests (-) SetToBag({req})) (+) SetToBag({req2})

\* the response of the finished request is sent
Return ==
    /\ Finished # EmptyBag
    /\ requests' = requests (-) Finished
    /\ UNCHANGED <<projects, proposals, contracts, project_seq, proposal_seq>>

\* the open transactions other than that of req
OtherTx(req) ==
    {q \in Requests : q # req /\ (q.tx_proposals # NoWrites \/ q.tx_contract)}

\* a Proposal row locked by the open transaction of another request
ProposalLocked(req, p) == \E q \in OtherTx(req) : p \in DOMAIN q.tx_proposals

Init ==
    /\ projects = [p \in {} |-> NoProject]
    /\ proposals = [p \in {} |-> NoProposal]
    /\ contracts = <<>>
    /\ project_seq = 0
    /\ proposal_seq = 0
    /\ requests = EmptyBag

\* ---- permissions ----

\* a role test that passes every authenticated user
IsClient_Anyone(u) == TRUE

\* IsClient.has_permission
IsClient(u) == user_type(u) = "client"

\* IsFreelancer.has_permission
IsFreelancer(u) == user_type(u) = "freelancer"

\* ---- queries ----

\* a status test that lets proposals in until the project is closed
ProjectIsOpen_UntilClosed(project_obj) ==
    project_obj.status \notin {"completed", "cancelled"}

\* status == 'open', the test of the serializer's queryset and of perform_create
ProjectIsOpen(project_obj) == project_obj.status = "open"

\* Project.objects.filter(status='open'), the queryset of ProposalSerializer.project
OpenProjects(projs) == {j \in DOMAIN projs : ProjectIsOpen(projs[j])}

\* Proposal.objects.filter(project=project, freelancer=user).exists()
ProposalExists(props, j, u) ==
    \E p \in DOMAIN props : props[p].project = j /\ props[p].freelancer = u

\* Contract.objects.filter(project=project): indexes of the matching rows
ContractsOf(ctrs, j) == {i \in 1 .. Len(ctrs) : ctrs[i].project = j}

\* ---- storage constraints (models.py) ----

\* the Proposal table without the unique index on (project, freelancer)
ProposalUnique_NoIndex(props, p, row) == TRUE

\* unique (project, freelancer) on Proposal: may row `row` be stored under id p?
ProposalUnique(props, p, row) ==
    \A q \in DOMAIN props \ {p} :
        ~(props[q].project = row.project /\ props[q].freelancer = row.freelancer)

\* the Contract table without the unique index on project
ContractUnique_NoIndex(ctrs, j) == TRUE

\* unique project on Contract: may a contract for project j be inserted?
ContractUnique(ctrs, j) == ContractsOf(ctrs, j) = {}

\* ---- ProjectViewSet.create ----

\* status is read-only in ProjectSerializer: the row gets the default 'open'
ProjectCreate(u, budget) ==
    /\ project_seq < MaxProjects
    /\ IF IsClient(u)
       THEN /\ project_seq' = project_seq + 1
            /\ projects' = projects @@
                   ((project_seq + 1) :> [client |-> u, status |-> "open",
                                          budget |-> budget])
            /\ Begin(Done([NewRequest("project_create", u) EXCEPT
                              !.project = project_seq + 1], "Created", ""))
       ELSE /\ Begin(Done(NewRequest("project_create", u), "PermissionDenied", ""))
            /\ UNCHANGED <<projects, project_seq>>
    /\ UNCHANGED <<proposals, contracts, proposal_seq>>

\* ---- ProjectViewSet.update / partial_update / destroy ----

\* ProjectViewSet.get_queryset without the projects of the user's contracts
VisibleProjects_NoContracted(projs, props, ctrs, u) ==
    IF user_type(u) = "client"
    THEN {j \in DOMAIN projs : projs[j].client = u}
    ELSE IF user_type(u) = "freelancer"
    THEN LET proposed_project_ids ==
                 {props[p].project : p \in {q \in DOMAIN props : props[q].freelancer = u}}
         IN {j \in DOMAIN projs :
                projs[j].status = "open" \/ j \in proposed_project_ids}
    ELSE IF is_staff(u) THEN DOMAIN projs
    ELSE {j \in DOMAIN projs : projs[j].status = "open"}

\* ProjectViewSet.get_queryset: the projects user u may address.  The
\* profile is looked at first; is_staff counts only for a user without one,
\* and a user with neither sees the open projects.
VisibleProjects(projs, props, ctrs, u) ==
    IF user_type(u) = "client"
    THEN {j \in DOMAIN projs : projs[j].client = u}
    ELSE IF user_type(u) = "freelancer"
    THEN LET proposed_project_ids ==
                 {props[p].project : p \in {q \in DOMAIN props : props[q].freelancer = u}}
             contracted_project_ids ==
                 {ctrs[i].project : i \in {k \in 1 .. Len(ctrs) : ctrs[k].freelancer = u}}
         IN {j \in DOMAIN projs :
                \/ projs[j].status = "open"
                \/ j \in proposed_project_ids
                \/ j \in contracted_project_ids}
    ELSE IF is_staff(u) THEN DOMAIN projs
    ELSE {j \in DOMAIN projs : projs[j].status = "open"}

\* a permission that lets every user who can address the project write it
IsOwnerOfProject_Anyone(u, project_obj) == TRUE

\* IsOwnerOrReadOnly.has_object_permission for a Project and an unsafe method
IsOwnerOfProject(u, project_obj) == project_obj.client = u

\* get_object() with check_object_permissions, for a Project
ProjectGetObject(req, u) ==
    IF req.project \notin VisibleProjects(projects, proposals, contracts, u)
    THEN Done(req, "NotFound", "")
    ELSE IF ~IsOwnerOfProject(u, projects[req.project])
         THEN Done(req, "PermissionDenied", "")
    ELSE [req EXCEPT !.pc = "perform", !.project_obj = projects[req.project]]

\* update / partial_update up to serializer.is_valid(): status and client
\* are read-only fields, the budget is taken from the request
ProjectUpdateGetObject(u, j, budget) ==
    /\ LET got == ProjectGetObject([NewRequest("project_update", u) EXCEPT
                                       !.project = j], u)
       IN Begin(IF got.pc = "done" THEN got
                ELSE [got EXCEPT !.project_obj.budget = budget])
    /\ UNCHANGED db

\* perform_update: serializer.save() is instance.save(), which writes every
\* column of the instance in memory and inserts the row when none is updated
ProjectUpdateSave(req) ==
    /\ req.action = "project_update" /\ req.pc = "perform"
    /\ projects' = (req.project :> req.project_obj) @@ projects
    /\ Step(req, Done(req, "OK", ""))
    /\ UNCHANGED <<proposals, contracts, project_seq, proposal_seq>>

\* destroy up to perform_destroy
ProjectDestroyGetObject(u, j) ==
    /\ Begin([ProjectGetObject([NewRequest("project_destroy", u) EXCEPT
                                   !.project = j], u)
                 EXCEPT !.project_obj = NoProject])
    /\ UNCHANGED db

\* the rows that go with project j when it is deleted
CascadeProposals(props, j) == {p \in DOMAIN props : props[p].project = j}

\* a row of project j written by an open transaction
CascadeLocked(req, j) ==
    \/ \E p \in CascadeProposals(proposals, j) : ProposalLocked(req, p)
    \/ \E q \in OtherTx(req) : q.tx_contract /\ q.project = j

\* perform_destroy: instance.delete(), with the proposals and the contract
\* of the project
ProjectDestroyDelete(req) ==
    /\ req.action = "project_destroy" /\ req.pc = "perform"
    /\ ~CascadeLocked(req, req.project)
    /\ projects' = [j \in DOMAIN projects \ {req.project} |-> projects[j]]
    /\ proposals' = [p \in DOMAIN proposals \
                           CascadeProposals(proposals, req.project)
                        |-> proposals[p]]
    /\ contracts' = SelectSeq(contracts, LAMBDA c : c.project # req.project)
    /\ Step(req, Done(req, "NoContent", ""))
    /\ UNCHANGED <<project_seq, proposal_seq>>

\* ---- ProposalViewSet.create (submit) ----

\* the submits in flight, each of which may still insert a row
PendingSubmits ==
    BagCardinality([q \in {x \in Requests : x.action = "create" /\ x.pc # "done"}
                       |-> requests[q]])

\* perform_create without the duplicate query
SubmitChecks_NoDuplicateQuery(u, j, projs, props) ==
    IF ~IsFreelancer(u) THEN <<"PermissionDenied", "">>
    ELSE IF j \notin OpenProjects(projs) THEN <<"ValidationError", "project">>
    ELSE IF ~ProjectIsOpen(projs[j]) THEN <<"ValidationError", "not open">>
    ELSE IF projs[j].client = u THEN <<"PermissionDenied", "own project">>
    ELSE <<"", "">>

\* check_permissions (IsFreelancer), serializer.is_valid() - the project is
\* looked up among the open projects - and perform_create up to the
\* duplicate query: the error raised, if any
SubmitChecks(u, j, projs, props) ==
    IF ~IsFreelancer(u) THEN <<"PermissionDenied", "">>
    ELSE IF j \notin OpenProjects(projs) THEN <<"ValidationError", "project">>
    ELSE IF ~ProjectIsOpen(projs[j]) THEN <<"ValidationError", "not open">>
    ELSE IF projs[j].client = u THEN <<"PermissionDenied", "own project">>
    ELSE IF ProposalExists(props, j, u) THEN <<"ValidationError", "duplicate">>
    ELSE <<"", "">>

\* a submit arrives and is validated
SubmitValidate(u, j, rate) ==
    /\ proposal_seq + PendingSubmits < MaxProposals
    /\ LET req == [NewRequest("create", u) EXCEPT !.project = j,
                      !.obj = [project |-> j, freelancer |-> u,
                               proposed_rate |-> rate, status |-> "pending"]]
           chk == SubmitChecks(u, j, projects, proposals)
       IN Begin(IF chk[1] # "" THEN Done(req, chk[1], chk[2])
                ELSE [req EXCEPT !.pc = "save"])
    /\ UNCHANGED db

\* serializer.save(freelancer=user): INSERT of the new row, status 'pending'
SubmitSave(req) ==
    /\ req.action = "create" /\ req.pc = "save"
    /\ LET id == proposal_seq + 1
       IN IF req.project \in DOMAIN projects /\ ProposalUnique(proposals, id, req.obj)
          THEN /\ proposals' = proposals @@ (id :> req.obj)
               /\ proposal_seq' = id
               /\ Step(req, Done([req EXCEPT !.pk = id], "Created", ""))
          ELSE /\ Step(req, Done(req, "IntegrityError", ""))
               /\ UNCHANGED <<proposals, proposal_seq>>
    /\ UNCHANGED <<projects, contracts, project_seq>>

\* ---- ProposalViewSet.update / partial_update / destroy ----

\* a queryset that is not filtered by the user
VisibleProposals_All(props, projs, u) == DOMAIN props

\* ProposalViewSet.get_queryset: the proposals user u may address.  The
\* profile is looked at first; is_staff counts only for a user without one,
\* and a user with neither sees none.
VisibleProposals(props, projs, u) ==
    IF user_type(u) = "freelancer"
    THEN {p \in DOMAIN props : props[p].freelancer = u}
    ELSE IF user_type(u) = "client"
    THEN {p \in DOMAIN props : projs[props[p].project].client = u}
    ELSE IF is_staff(u) THEN DOMAIN props
    ELSE {}

\* IsOwnerOrReadOnly.has_object_permission for a Proposal and an unsafe method
IsOwnerOfProposal(u, obj) ==
    IF obj.status # "pending" THEN FALSE ELSE obj.freelancer = u

\* get_object() with check_object_permissions
GetObject(req, u) ==
    IF req.pk \notin VisibleProposals(proposals, projects, u)
    THEN Done(req, "NotFound", "")
    ELSE IF ~IsOwnerOfProposal(u, proposals[req.pk])
         THEN Done(req, "PermissionDenied", "")
    ELSE [req EXCEPT !.pc = "perform", !.obj = proposals[req.pk],
                     !.project = proposals[req.pk].project]

\* update / partial_update up to serializer.is_valid(): j = 0 stands for a
\* request that carries no project
EditGetObject(u, pk, j, rate) ==
    /\ LET got == GetObject([NewRequest("update", u) EXCEPT !.pk = pk], u)
       IN Begin(IF got.pc = "done" THEN got
                ELSE IF j # 0 /\ j \notin OpenProjects(projects)
                     THEN Done(got, "ValidationError", "project")
                ELSE [got EXCEPT !.obj.proposed_rate = rate,
                                 !.obj.project = IF j = 0 THEN @ ELSE j])
    /\ UNCHANGED db

\* perform_update: serializer.save() is instance.save(), which writes every
\* column of the instance in memory and inserts the row when none is updated
EditSave(req) ==
    /\ req.action = "update" /\ req.pc = "perform"
    /\ ~ProposalLocked(req, req.pk)
    /\ IF req.obj.project \in DOMAIN projects
          /\ ProposalUnique(proposals, req.pk, req.obj)
       THEN /\ proposals' = (req.pk :> req.obj) @@ proposals
            /\ Step(req, Done(req, "OK", ""))
       ELSE /\ Step(req, Done(req, "IntegrityError", ""))
            /\ UNCHANGED proposals
    /\ UNCHANGED <<projects, contracts, project_seq, proposal_seq>>

\* destroy (withdraw) up to perform_destroy
DestroyGetObject(u, pk) ==
    /\ Begin([GetObject([NewRequest("destroy", u) EXCEPT !.pk = pk], u)
                 EXCEPT !.obj = NoProposal])
    /\ UNCHANGED db

\* perform_destroy: instance.delete()
DestroyDelete(req) ==
    /\ req.action = "destroy" /\ req.pc = "perform"
    /\ ~ProposalLocked(req, req.pk)
    /\ proposals' = [p \in DOMAIN proposals \ {req.pk} |-> proposals[p]]
    /\ Step(req, Done(req, "NoContent", ""))
    /\ UNCHANGED <<projects, contracts, project_seq, proposal_seq>>

\* ---- ProposalViewSet.update_status ----

StatusInputs == {"accepted", "rejected", "pending"}

\* the checks without the test that the requested status is a decision
UpdateStatusPrecheck_NoStatusCheck(user, new_status, obj, project_obj) ==
    IF project_obj.client # user THEN <<"PermissionDenied", "">>
    ELSE IF obj.status # "pending" THEN <<"BadRequest", obj.status>>
    ELSE IF new_status = "accepted" /\ project_obj.status # "open"
         THEN <<"BadRequest", "project not open">>
    ELSE <<"", "">>

\* the checks without the test that the proposal is pending
UpdateStatusPrecheck_NoPendingCheck(user, new_status, obj, project_obj) ==
    IF project_obj.client # user THEN <<"PermissionDenied", "">>
    ELSE IF new_status \notin {"accepted", "rejected"}
         THEN <<"BadRequest", "invalid status">>
    ELSE IF new_status = "accepted" /\ project_obj.status # "open"
         THEN <<"BadRequest", "project not open">>
    ELSE <<"", "">>

\* the checks without the test that the user is the client of the project
UpdateStatusPrecheck_NoOwnerCheck(user, new_status, obj, project_obj) ==
    IF new_status \notin {"accepted", "rejected"}
    THEN <<"BadRequest", "invalid status">>
    ELSE IF obj.status # "pending" THEN <<"BadRequest", obj.status>>
    ELSE IF new_status = "accepted" /\ project_obj.status # "open"
         THEN <<"BadRequest", "project not open">>
    ELSE <<"", "">>

\* the checks of update_status before the atomic block, on the objects read
\* by get_object_or_404(...select_related('project', 'freelancer'))
UpdateStatusPrecheck(user, new_status, obj, project_obj) ==
    IF project_obj.client # user THEN <<"PermissionDenied", "">>
    ELSE IF new_status \notin {"accepted", "rejected"}
         THEN <<"BadRequest", "invalid status">>
    ELSE IF obj.status # "pending" THEN <<"BadRequest", obj.status>>
    ELSE IF new_status = "accepted" /\ project_obj.status # "open"
         THEN <<"BadRequest", "project not open">>
    ELSE <<"", "">>

UpdateStatusCheck(u, pk, new_status) ==
    /\ LET req == [NewRequest("update_status", u) EXCEPT
                      !.pk = pk, !.new_status = new_status]
       IN Begin(IF pk \notin DOMAIN proposals THEN Done(req, "NotFound", "")
                ELSE LET obj == proposals[pk]
                         chk == UpdateStatusPrecheck(u, new_status, obj,
                                                     projects[obj.project])
                     IN IF chk[1] # "" THEN Done(req, chk[1], chk[2])
                        ELSE [req EXCEPT !.pc = "atomic", !.obj = obj,
                                         !.project = obj.project])
    /\ UNCHANGED db

\* the Contract row of request req: the defaults of get_or_create
ContractRow(req) ==
    [project |-> req.obj.project, freelancer |-> req.obj.freelancer,
     agreed_rate |-> req.obj.proposed_rate]

\* an uncommitted Contract insert of another request that the unique index
\* makes this insert wait for
ContractInsertBlocked(req, j) ==
    \E q \in OtherTx(req) :
        q.tx_contract /\ ~ContractUnique(<<ContractRow(q)>>, j)

\* the receiver of post_save for Proposal: the notification of the decision
\* on the saved proposal
ProposalPostSave(pk, status) ==
    IF status = "accepted" THEN {<<"ProposalAccepted", pk>>}
    ELSE IF status = "rejected" THEN {<<"ProposalRejected", pk>>}
    ELSE {}

\* the receiver of post_save for Project: the notification that the project
\* is in progress
ProjectPostSave(j, status) ==
    IF status = "in_progress" THEN {<<"ProjectInProgress", j>>} ELSE {}

\* the block is left without an exception: the transaction commits, and
\* with it the notifications written in it
Commit(req, events) == [Done(req, "OK", "") EXCEPT !.events = events]

\* notifications that are sent when the receiver runs: a rollback does not
\* take them back
RolledBackNotifications_Sent(tx_events) == tx_events

\* what a rollback leaves of the notifications written in the transaction:
\* they are rows of the Notification table, written by the receivers inside
\* the block, and go with the other writes
RolledBackNotifications(tx_events) == {}

\* the except clause: the transaction is rolled back; HTTP 500
Rollback(req, detail) ==
    [Done(req, "ServerError", detail) EXCEPT
        !.events = RolledBackNotifications(req.tx_events)]

\* a bulk update that selects no row
OtherPending_None(props, j, pk) == {}

\* Proposal.objects.filter(project=..., status='pending').exclude(pk=...)
OtherPending(props, j, pk) ==
    {p \in DOMAIN props : props[p].project = j /\ props[p].status = "pending"}
        \ {pk}

\* the writes of a transaction applied to the Proposal table
Committed(props, tx_proposals) ==
    [p \in DOMAIN props |->
        IF p \in DOMAIN tx_proposals
        THEN [props[p] EXCEPT !.status = tx_proposals[p]]
        ELSE props[p]]

\* the proposal saved before the atomic block is entered: the write is
\* committed at once
TxSaveProposal_Autocommit(req) ==
    /\ req.pc = "atomic"
    /\ ~ProposalLocked(req, req.pk)
    /\ LET tx == (req.pk :> req.new_status)
       IN IF req.pk \notin DOMAIN proposals
          THEN Step(req, Rollback(req, "save affected no rows"))
               /\ UNCHANGED proposals
          ELSE IF req.new_status # "accepted"
          THEN Step(req, Commit(req, ProposalPostSave(req.pk,
                                                      req.new_status)))
               /\ proposals' = Committed(proposals, tx)
          ELSE IF ContractsOf(contracts, req.project) # {}
          THEN Step(req, Rollback(req, "contract exists"))
               /\ proposals' = Committed(proposals, tx)
          ELSE Step(req, [req EXCEPT !.tx_proposals = tx,
                                     !.tx_events = ProposalPostSave(
                                         req.pk, req.new_status),
                                     !.pc = "create_contract"])
               /\ proposals' = Committed(proposals, tx)
    /\ UNCHANGED <<projects, contracts, project_seq, proposal_seq>>

\* with transaction.atomic(): proposal.status = new_status;
\* a rejection that also runs the bulk update of the acceptance
TxSaveProposal_RejectCascades(req) ==
    /\ req.pc = "atomic"
    /\ ~ProposalLocked(req, req.pk)
    /\ LET tx == (req.pk :> req.new_status)
           others == [p \in OtherPending(proposals, req.project, req.pk)
                         |-> "rejected"]
       IN IF req.pk \notin DOMAIN proposals
          THEN Step(req, Rollback(req, "save affected no rows"))
               /\ UNCHANGED proposals
          ELSE IF req.new_status # "accepted"
          THEN Step(req, Commit(req, ProposalPostSave(req.pk,
                                                      req.new_status)))
               /\ proposals' = Committed(proposals, tx @@ others)
          ELSE IF ContractsOf(contracts, req.project) # {}
          THEN Step(req, Rollback(req, "contract exists"))
               /\ UNCHANGED proposals
          ELSE Step(req, [req EXCEPT !.tx_proposals = tx,
                                     !.tx_events = ProposalPostSave(
                                         req.pk, req.new_status),
                                     !.pc = "create_contract"])
               /\ UNCHANGED proposals
    /\ UNCHANGED <<projects, contracts, project_seq, proposal_seq>>

\* proposal.save(update_fields=['status']), which sends post_save inside
\* the block.  A rejection leaves the block and commits; an acceptance goes
\* on to the lookup of get_or_create.
TxSaveProposal(req) ==
    /\ req.pc = "atomic"
    /\ ~ProposalLocked(req, req.pk)
    /\ LET tx == (req.pk :> req.new_status)
       IN IF req.pk \notin DOMAIN proposals
          THEN Step(req, Rollback(req, "save affected no rows"))
               /\ UNCHANGED proposals
          ELSE IF req.new_status # "accepted"
          THEN Step(req, Commit(req, ProposalPostSave(req.pk,
                                                      req.new_status)))
               /\ proposals' = Committed(proposals, tx)
          ELSE IF ContractsOf(contracts, req.project) # {}
          THEN Step(req, Rollback(req, "contract exists"))
               /\ UNCHANGED proposals
          ELSE Step(req, [req EXCEPT !.tx_proposals = tx,
                                     !.tx_events = ProposalPostSave(
                                         req.pk, req.new_status),
                                     !.pc = "create_contract"])
               /\ UNCHANGED proposals
    /\ UNCHANGED <<projects, contracts, project_seq, proposal_seq>>

\* Contract.objects.get_or_create: the insert; on IntegrityError the row is
\* looked up again and created is False, which raises ValidationError
TxCreateContract(req) ==
    /\ req.pc = "create_contract"
    /\ ~ContractInsertBlocked(req, req.project)
    /\ Step(req, IF ~ContractUnique(contracts, req.project)
                 THEN Rollback(req, "contract exists")
                 ELSE [req EXCEPT !.tx_contract = TRUE, !.pc = "created"])
    /\ UNCHANGED db

\* the other proposals rejected in a loop over rows read earlier, each
\* with save(): a row withdrawn in the meantime is inserted again
TxCommit_ReadThenWrite(req) ==
    /\ req.pc = "created"
    /\ LET targets == OtherPending(proposals, req.project, req.pk)
           tx == [p \in targets |-> "rejected"] @@ req.tx_proposals
           gone == (1 .. proposal_seq) \ DOMAIN proposals
       IN /\ \A p \in targets : ~ProposalLocked(req, p)
          /\ IF req.project \notin DOMAIN projects
             THEN /\ Step(req, Rollback(req, "save affected no rows"))
                  /\ UNCHANGED <<projects, proposals, contracts>>
             ELSE /\ proposals' = Committed(proposals, tx) @@
                         [q \in gone |-> [req.obj EXCEPT !.status = "rejected"]]
                  /\ contracts' = Append(contracts, ContractRow(req))
                  /\ projects' = [projects EXCEPT
                                     ![req.project].status = "in_progress"]
                  /\ Step(req, Commit(req, req.tx_events \cup
                                   ProjectPostSave(req.project,
                                                   "in_progress")))
    /\ UNCHANGED <<project_seq, proposal_seq>>

\* if created: the project is saved with status 'in_progress', the other
\* pending proposals of the project are updated to 'rejected' by
\* QuerySet.update, which sends no post_save, and the block is left: the
\* writes of the transaction become visible
TxCommit(req) ==
    /\ req.pc = "created"
    /\ LET targets == OtherPending(proposals, req.project, req.pk)
           tx == [p \in targets |-> "rejected"] @@ req.tx_proposals
       IN /\ \A p \in targets : ~ProposalLocked(req, p)
          /\ IF req.project \notin DOMAIN projects
             THEN /\ Step(req, Rollback(req, "save affected no rows"))
                  /\ UNCHANGED <<projects, proposals, contracts>>
             ELSE /\ proposals' = Committed(proposals, tx)
                  /\ contracts' = Append(contracts, ContractRow(req))
                  /\ projects' = [projects EXCEPT
                                     ![req.project].status = "in_progress"]
                  /\ Step(req, Commit(req, req.tx_events \cup
                                   ProjectPostSave(req.project,
                                                   "in_progress")))
    /\ UNCHANGED <<project_seq, proposal_seq>>

\* ---- ContractViewSet ----

\* the methods the router does not map for a ReadOnlyModelViewSet
UnsafeMethods == {"POST", "PUT", "PATCH", "DELETE"}

\* the contract endpoint as a ModelViewSet: DELETE removes a contract
ContractWrite_ModelViewSet(u, method) ==
    /\ Begin(Done(NewRequest("contract_write", u),
                  IF method = "DELETE" /\ contracts # <<>>
                  THEN "NoContent" ELSE "MethodNotAllowed", method))
    /\ contracts' = IF method = "DELETE" /\ contracts # <<>>
                    THEN Tail(contracts) ELSE contracts
    /\ UNCHANGED <<projects, proposals, project_seq, proposal_seq>>

\* ContractViewSet is a ReadOnlyModelViewSet: a request with an unsafe
\* method finds no handler and is answered 405
ContractWrite(u, method) ==
    /\ Begin(Done(NewRequest("contract_write", u), "MethodNotAllowed", method))
    /\ UNCHANGED db

TxStages == {"atomic", "create_contract", "created"}

\* a statement of the block raises a storage error (lock timeout, deadlock
\* victim, lost connection): caught by `except Exception`
TxAbort(req) ==
    /\ req.pc \in TxStages
    /\ Step(req, Rollback(req, "storage error"))
    /\ UNCHANGED db

Next ==
    \/ \E u \in Creators, budget \in Budgets : ProjectCreate(u, budget)
    \/ \E u \in Users, j \in 1 .. project_seq, budget \in Budgets :
           ProjectUpdateGetObject(u, j, budget)
    \/ \E req \in Requests : ProjectUpdateSave(req)
    \/ \E u \in Users, j \in 1 .. project_seq : ProjectDestroyGetObject(u, j)
    \/ \E req \in Requests : ProjectDestroyDelete(req)
    \/ \E u \in Users, j \in 1 .. MaxProjects, rate \in Rates :
           SubmitValidate(u, j, rate)
    \/ \E req \in Requests : SubmitSave(req)
    \/ \E u \in Users, pk \in 1 .. proposal_seq, j \in 0 .. MaxProjects,
          rate \in Rates : EditGetObject(u, pk, j, rate)
    \/ \E req \in Requests : EditSave(req)
    \/ \E u \in Users, pk \in 1 .. proposal_seq : DestroyGetObject(u, pk)
    \/ \E req \in Requests : DestroyDelete(req)
    \/ \E u \in Users, pk \in 1 .. proposal_seq, st \in StatusInputs :
           UpdateStatusCheck(u, pk, st)
    \/ \E req \in Requests : TxSaveProposal(req)
    \/ \E req \in Requests : TxCreateContract(req)
    \/ \E req \in Requests : TxCommit(req)
    \/ \E req \in Requests : TxAbort(req)
    \/ \E u \in Users, method \in UnsafeMethods : ContractWrite(u, method)
    \/ Return

Spec == Init /\ [][Next]_vars

\* ---- list: the three get_queryset methods applied to a stored state ----

\* ContractViewSet.get_queryset without the branch for staff
VisibleContracts_NoStaff(ctrs, projs, u) ==
    IF user_type(u) = "freelancer"
    THEN {i \in 1 .. Len(ctrs) : ctrs[i].freelancer = u}
    ELSE IF user_type(u) = "client"
    THEN {i \in 1 .. Len(ctrs) : projs[ctrs[i].project].client = u}
    ELSE {}

\* ContractViewSet.get_queryset: the contracts user u is shown.  The
\* profile is looked at first; is_staff counts only for a user without one,
\* and a user with neither sees none.
VisibleContracts(ctrs, projs, u) ==
    IF user_type(u) = "freelancer"
    THEN {i \in 1 .. Len(ctrs) : ctrs[i].freelancer = u}
    ELSE IF user_type(u) = "client"
    THEN {i \in 1 .. Len(ctrs) : projs[ctrs[i].project].client = u}
    ELSE IF is_staff(u) THEN 1 .. Len(ctrs)
    ELSE {}

\* the response of a list request: the rows of the queryset
Listed(req, rows) == [Done(req, "OK", "") EXCEPT !.rows = rows]

\* GET /projects/
ProjectList(u) ==
    /\ Begin(Listed(NewRequest("project_list", u),
                    VisibleProjects(projects, proposals, contracts, u)))
    /\ UNCHANGED db

\* GET /proposals/
ProposalList(u) ==
    /\ Begin(Listed(NewRequest("proposal_list", u),
                    VisibleProposals(proposals, projects, u)))
    /\ UNCHANGED db

\* GET /contracts/
ContractList(u) ==
    /\ Begin(Listed(NewRequest("contract_list", u),
                    VisibleContracts(contracts, projects, u)))
    /\ UNCHANGED db

\* the number of projects in the stored states the list requests read
ListedProjects == 2

\* A stored state: each project belongs to c1 or to the staff client a1
\* and has a proposal of f1 and one of the staff freelancer a2.  A project
\* is open with both proposals pending, or in_progress with one proposal
\* accepted, the other rejected and the Contract of the accepted one.
InitVisible ==
    \E owner \in [1 .. ListedProjects -> {"c1", "a1"}],
       winner \in [1 .. ListedProjects -> {"", "f1", "a2"}] :
        LET bidder(p) == IF p % 2 = 1 THEN "f1" ELSE "a2"
            InProgress(row) == winner[row.project] # ""
        IN /\ projects =
                  [j \in 1 .. ListedProjects |->
                      [client |-> owner[j],
                       status |-> IF winner[j] = "" THEN "open"
                                  ELSE "in_progress",
                       budget |-> 100]]
           /\ proposals =
                  [p \in 1 .. 2 * ListedProjects |->
                      [project |-> (p + 1) \div 2,
                       freelancer |-> bidder(p),
                       proposed_rate |-> 50,
                       status |-> IF winner[(p + 1) \div 2] = "" THEN "pending"
                                  ELSE IF winner[(p + 1) \div 2] = bidder(p)
                                       THEN "accepted"
                                  ELSE "rejected"]]
           /\ contracts =
                  SelectSeq([j \in 1 .. ListedProjects |->
                                [project |-> j, freelancer |-> winner[j],
                                 agreed_rate |-> 50]],
                            InProgress)
           /\ project_seq = ListedProjects
           /\ proposal_seq = 2 * ListedProjects
           /\ requests = EmptyBag

NextVisible ==
    \/ \E u \in Actors : ProjectList(u)
    \/ \E u \in Actors : ProposalList(u)
    \/ \E u \in Actors : ContractList(u)
    \/ Return

SpecVisible == InitVisible /\ [][NextVisible]_vars

\* ---- edit: update / partial_update applied to a stored state ----

\* the number of projects in the stored states the edit requests read
EditedProjects == 2

\* A stored state: the projects belong to c1.  Project 1 is open and has
\* the pending proposal 1 of f1; each other project j has proposal j of f2
\* and is open with that proposal pending, or in_progress with it accepted
\* and under Contract.  f1 may have a second proposal, for project 2.
InitEdit ==
    \E st \in [1 .. EditedProjects -> {"open", "in_progress"}],
       rate \in Rates, second \in BOOLEAN :
        LET InProgress(row) == st[row.project] = "in_progress"
            first == [j \in 1 .. EditedProjects |->
                         [project |-> j,
                          freelancer |-> IF j = 1 THEN "f1" ELSE "f2",
                          proposed_rate |-> rate,
                          status |-> IF st[j] = "open" THEN "pending"
                                     ELSE "accepted"]]
        IN /\ st[1] = "open"
           /\ projects =
                  [j \in 1 .. EditedProjects |->
                      [client |-> "c1", status |-> st[j], budget |-> 100]]
           /\ proposals =
                  IF second
                  THEN Append(first,
                              [project |-> 2, freelancer |-> "f1",
                               proposed_rate |-> rate,
                               status |-> IF st[2] = "open" THEN "pending"
                                          ELSE "rejected"])
                  ELSE first
           /\ contracts =
                  SelectSeq([j \in 1 .. EditedProjects |->
                                [project |-> j, freelancer |-> "f2",
                                 agreed_rate |-> rate]],
                            InProgress)
           /\ project_seq = EditedProjects
           /\ proposal_seq = Len(proposals)
           /\ requests = EmptyBag

NextEdit ==
    \/ \E u \in Users, pk \in 1 .. proposal_seq, j \in 0 .. project_seq,
          rate \in Rates : EditGetObject(u, pk, j, rate)
    \/ \E req \in Requests : EditSave(req)
    \/ Return

SpecEdit == InitEdit /\ [][NextEdit]_vars

\* ---- the steps of a behaviour, as the properties below read them ----

\* request req takes the step
Acting(req) ==
    /\ req \in Requests
    /\ req.pc # "done"
    /\ CopiesIn(req, requests') < CopiesIn(req, requests)

\* request d is what the step adds to the bag: a request that arrives, or
\* the next stage of the request that acts
Added(d) ==
    /\ d \in BagToSet(requests')
    /\ CopiesIn(d, requests') > CopiesIn(d, requests)

\* request d arrives in the step
Arrives(d) == Added(d) /\ \A q \in Requests : ~Acting(q)

\* the finished request, if any
Responses == {d \in Requests : d.pc = "done"}

\* ---- C1 ----
\* C1: in every reachable state there is at most one Contract per project,
\* whatever the interleaving of the update_status requests.
C1_AtMostOneContractPerProject ==
    \A i, k \in 1 .. Len(contracts) :
        contracts[i].project = contracts[k].project => i = k

\* an accept has lost the race for the Contract of its project
C1_Witness ==
    \E d \in Responses :
        /\ d.action = "update_status" /\ d.new_status = "accepted"
        /\ d.resp = "ServerError" /\ d.detail = "contract exists"
        /\ Cardinality(ContractsOf(contracts, d.project)) = 1

\* ---- C2 ----
\* C2: a step of an update_status request changes the status of a proposal
\* only from pending to accepted or from pending to rejected.
C2_StatusOnlyLeavesPending ==
    [][\A req \in Requests :
          Acting(req) /\ req.action = "update_status" =>
              \A p \in DOMAIN proposals :
                  /\ p \in DOMAIN proposals'
                  /\ proposals'[p].status # proposals[p].status =>
                        /\ proposals[p].status = "pending"
                        /\ proposals'[p].status \in {"accepted", "rejected"}]_vars

\* ---- C3 ----

\* response d is that of an accept that found the Contract of its project
\* created by the accept of another proposal
LostTheRace(d) ==
    /\ d.action = "update_status" /\ d.new_status = "accepted"
    /\ d.resp = "ServerError" /\ d.detail = "contract exists"
    /\ d.pk \in DOMAIN proposals
    /\ \E i \in ContractsOf(contracts, d.project) :
           contracts[i].freelancer # proposals[d.pk].freelancer

\* C3 as stated: of two concurrent accepts of different proposals of a
\* project one creates the Contract and moves the project to in_progress,
\* and the other gets an error and leaves its own proposal pending.
C3_LoserStaysPending ==
    \A d \in Responses :
        LostTheRace(d) =>
            /\ Cardinality(ContractsOf(contracts, d.project)) = 1
            /\ projects[d.project].status = "in_progress"
            /\ proposals[d.pk].status = "pending"

\* the accepts in flight for other proposals of the project of req
RivalAccepts(req) ==
    {q \in Requests :
        /\ q.action = "update_status" /\ q.new_status = "accepted"
        /\ q.pc \in {"atomic", "create_contract", "created"}
        /\ q.project = req.project /\ q.pk # req.pk}

\* C3 as amended: the accept that commits is the only one to create a
\* Contract for the project, it moves the project to in_progress and it
\* rejects the proposals of the accepts in flight for the same project; an
\* accept that ends with an error changes nothing, and it ends with the
\* error "contract exists" only when the Contract is there.
C3_OneWinnerLoserRejected ==
    /\ [][\A req \in Requests :
             Acting(req) /\ req.action = "update_status"
                 /\ req.new_status = "accepted" =>
                 \A d \in BagToSet(requests') :
                     Added(d) /\ d.pc = "done" =>
                         IF d.resp = "OK"
                         THEN /\ ContractsOf(contracts, req.project) = {}
                              /\ Cardinality(ContractsOf(contracts', req.project)) = 1
                              /\ projects'[req.project].status = "in_progress"
                              /\ \A q \in RivalAccepts(req) :
                                     /\ q.pk \in DOMAIN proposals
                                     /\ proposals[q.pk].project = req.project
                                     => proposals'[q.pk].status = "rejected"
                         ELSE /\ UNCHANGED db
                              /\ d.detail = "contract exists" =>
                                     ContractsOf(contracts, req.project) # {}]_vars
    /\ [](\A j \in DOMAIN projects : Cardinality(ContractsOf(contracts, j)) <= 1)

\* an accept has lost the race and its proposal is rejected
C3_Witness ==
    \E d \in Responses : LostTheRace(d) /\ proposals[d.pk].status = "rejected"

\* ---- C4 ----
\* C4: the step in which an accept of pending proposal P on open project J
\* succeeds adds a Contract for J with P's freelancer and P's proposed rate,
\* sets P accepted and J in_progress, rejects the other pending proposals of
\* J and changes no other proposal.
C4_AcceptYields ==
    [][\A req \in Requests :
          /\ Acting(req) /\ req.action = "update_status"
          /\ req.new_status = "accepted"
          /\ \E d \in BagToSet(requests') : Added(d) /\ d.resp = "OK"
          /\ req.pk \in DOMAIN proposals
          /\ proposals[req.pk].status = "pending"
          /\ projects[req.project].status = "open"
          => /\ Len(contracts') = Len(contracts) + 1
             /\ contracts'[Len(contracts')] =
                    [project |-> proposals'[req.pk].project,
                     freelancer |-> proposals'[req.pk].freelancer,
                     agreed_rate |-> proposals'[req.pk].proposed_rate]
             /\ proposals'[req.pk].project = req.project
             /\ proposals'[req.pk].status = "accepted"
             /\ projects'[req.project].status = "in_progress"
             /\ \A p \in DOMAIN proposals \ {req.pk} :
                    proposals'[p] =
                        IF proposals[p].project = req.project
                           /\ proposals[p].status = "pending"
                        THEN [proposals[p] EXCEPT !.status = "rejected"]
                        ELSE proposals[p]]_vars

\* ---- C5 ----
\* C5 as stated, in the case it names: after an accept has failed inside
\* its atomic block on finding the Contract of its project, its proposal is
\* pending and its project is open.
C5_FailedAcceptLeavesPendingAndOpen ==
    \A d \in Responses :
        d.action = "update_status" /\ d.new_status = "accepted"
            /\ d.resp = "ServerError" /\ d.detail = "contract exists" =>
            /\ d.pk \in DOMAIN proposals => proposals[d.pk].status = "pending"
            /\ projects[d.project].status = "open"

\* C5 as amended: a step in which update_status fails inside its atomic
\* block answers with an error and leaves every table as it was, and while
\* an accept is inside the block its writes are not in the tables: its
\* proposal is not accepted and, once it has inserted the Contract, the
\* project has no Contract and is open.
C5_FailureRollsBack ==
    /\ [][\A req \in Requests :
             Acting(req) /\ req.action = "update_status" =>
                 \A d \in BagToSet(requests') :
                     Added(d) /\ d.pc = "done" /\ d.resp # "OK" =>
                         d.resp = "ServerError" /\ UNCHANGED db]_vars
    /\ [](\A q \in Requests :
             /\ q.pc \in {"create_contract", "created"} =>
                   /\ q.pk \in DOMAIN proposals
                   /\ proposals[q.pk].status # "accepted"
             /\ q.pc = "created" =>
                   /\ ContractsOf(contracts, q.project) = {}
                   /\ projects[q.project].status = "open")

\* an accept has failed on the Contract of another accept
C5_Witness ==
    \E d \in Responses :
        /\ d.action = "update_status" /\ d.new_status = "accepted"
        /\ d.resp = "ServerError" /\ d.detail = "contract exists"
        /\ projects[d.project].status = "in_progress"

\* ---- C6 ----
\* C6: an update_status request of the project's client with status
\* accepted or rejected, for a proposal that is accepted or rejected, ends
\* at once with the error that names the proposal's status; it does not
\* enter the atomic block and changes no table.
C6_DecidedProposalRefused ==
    [][\A d \in BagToSet(requests') :
          /\ Arrives(d) /\ d.action = "update_status"
          /\ d.pk \in DOMAIN proposals
          /\ projects[proposals[d.pk].project].client = d.user
          /\ d.new_status \in {"accepted", "rejected"}
          /\ proposals[d.pk].status \in {"accepted", "rejected"}
          => /\ d.pc = "done"
             /\ d.resp = "BadRequest"
             /\ d.detail = proposals[d.pk].status
             /\ UNCHANGED db]_vars

\* the client has asked again to accept a proposal that is accepted
C6_Witness ==
    \E d \in Responses :
        /\ d.action = "update_status" /\ d.new_status = "accepted"
        /\ d.resp = "BadRequest" /\ d.detail = "accepted"
        /\ d.pk \in DOMAIN proposals /\ proposals[d.pk].status = "accepted"
        /\ Len(contracts) = 1

\* ---- C7 ----
\* C7: an update_status request of a user who is not the client of the
\* proposal's project ends at once with PermissionDenied and changes no
\* table.
C7_OnlyTheClientDecides ==
    [][\A d \in BagToSet(requests') :
          /\ Arrives(d) /\ d.action = "update_status"
          /\ d.pk \in DOMAIN proposals
          /\ projects[proposals[d.pk].project].client # d.user
          => /\ d.pc = "done"
             /\ d.resp = "PermissionDenied"
             /\ UNCHANGED db]_vars

\* another client has been refused, for a proposal that is pending
C7_Witness ==
    \E d \in Responses :
        /\ d.action = "update_status" /\ d.resp = "PermissionDenied"
        /\ d.user \in Clients /\ d.new_status = "accepted"
        /\ d.pk \in DOMAIN proposals /\ proposals[d.pk].status = "pending"

\* ---- C8 ----
\* C8: in every reachable state there is at most one Proposal for each pair
\* of project and freelancer.
C8_OneProposalPerProjectAndFreelancer ==
    \A p, q \in DOMAIN proposals :
        proposals[p].project = proposals[q].project
            /\ proposals[p].freelancer = proposals[q].freelancer => p = q

\* a write of a second proposal of the freelancer for the project was refused
C8_Witness ==
    \E d \in Responses :
        /\ d.action \in {"create", "update"} /\ d.resp = "IntegrityError"
        /\ \E p \in DOMAIN proposals :
               proposals[p].project = d.project /\ proposals[p].freelancer = d.user

\* ---- C9 ----

\* a reason for which the submit of user u for project j is to fail
SubmitMustFail(u, j) ==
    \/ j \notin DOMAIN projects
    \/ projects[j].status # "open"
    \/ projects[j].client = u
    \/ ProposalExists(proposals, j, u)

\* C9: a submit that arrives for a project that is not open, from the
\* project's client, or from a freelancer who has a proposal for the
\* project, fails at once and stores nothing; any other submit of a
\* freelancer goes on to its insert, which stores exactly one proposal,
\* pending and of the requester, unless the freelancer has got a proposal
\* for the project in the meantime, and then it fails and stores nothing.
C9_SubmitFailsOrCreatesOnePending ==
    [][/\ \A d \in BagToSet(requests') :
             Arrives(d) /\ d.action = "create" =>
                 /\ proposals' = proposals
                 /\ IF SubmitMustFail(d.user, d.project)
                    THEN d.pc = "done"
                         /\ d.resp \in {"ValidationError", "PermissionDenied"}
                    ELSE IsFreelancer(d.user) => d.pc = "save"
       /\ \A req \in Requests :
             Acting(req) /\ req.action = "create" =>
                 \A d \in BagToSet(requests') :
                     Added(d) =>
                         IF ProposalExists(proposals, req.project, req.user)
                            \/ req.project \notin DOMAIN projects
                         THEN d.resp # "Created" /\ proposals' = proposals
                         ELSE /\ d.resp = "Created"
                              /\ d.pk \notin DOMAIN proposals
                              /\ proposals' = proposals @@
                                     (d.pk :> [project |-> req.project,
                                               freelancer |-> req.user,
                                               proposed_rate |-> req.obj.proposed_rate,
                                               status |-> "pending"])]_vars

\* a submit has stored a pending proposal of its requester, and another
\* proposal is there
C9_Witness ==
    \E d \in Responses :
        /\ d.action = "create" /\ d.resp = "Created"
        /\ proposals[d.pk].freelancer = d.user
        /\ proposals[d.pk].status = "pending"
        /\ Cardinality(DOMAIN proposals) = 2

\* ---- C10 ----
\* C10: a submit of a freelancer that arrives when the project has its
\* Contract and is in_progress ends at once with ValidationError and stores
\* nothing.
C10_NoSubmitAfterAccept ==
    [][\A d \in BagToSet(requests') :
          /\ Arrives(d) /\ d.action = "create" /\ IsFreelancer(d.user)
          /\ d.project \in DOMAIN projects
          /\ projects[d.project].status = "in_progress"
          /\ ContractsOf(contracts, d.project) # {}
          => /\ d.pc = "done"
             /\ d.resp = "ValidationError"
             /\ proposals' = proposals]_vars

\* a freelancer without a proposal for the project has been refused after
\* the accept
C10_Witness ==
    \E d \in Responses :
        /\ d.action = "create" /\ d.resp = "ValidationError"
        /\ d.project \in DOMAIN projects
        /\ projects[d.project].status = "in_progress"
        /\ ContractsOf(contracts, d.project) # {}
        /\ ~ProposalExists(proposals, d.project, d.user)

\* ---- C11 ----
\* C11: a step of a withdraw that removes a proposal removes a proposal of
\* the requester that is pending when it is removed, and removes nothing
\* else.
C11_WithdrawOnlyPending ==
    [][\A req \in Requests :
          /\ Acting(req) /\ req.action = "destroy"
          /\ req.pk \in DOMAIN proposals
          /\ req.pk \notin DOMAIN proposals'
          => /\ proposals[req.pk].freelancer = req.user
             /\ proposals[req.pk].status = "pending"]_vars

\* ---- C12 ----
\* C12: a step of an edit that writes a proposal in the Proposal table
\* writes a proposal of the requester that is pending, and leaves its
\* status as it is.
C12_EditOnlyPendingKeepsStatus ==
    [][\A req \in Requests :
          /\ Acting(req) /\ req.action = "update"
          /\ proposals' # proposals
          /\ req.pk \in DOMAIN proposals
          => /\ proposals[req.pk].freelancer = req.user
             /\ proposals[req.pk].status = "pending"
             /\ proposals'[req.pk].status = proposals[req.pk].status]_vars

\* ---- C13 ----

\* the step is the commit of an accept
AcceptCommits ==
    \E req \in Requests :
        /\ Acting(req) /\ req.action = "update_status"
        /\ req.new_status = "accepted"
        /\ \E d \in BagToSet(requests') : Added(d) /\ d.resp = "OK"

\* C13: a step that changes the status of a project, or that adds a
\* Contract, is the commit of an accept; a project that a step adds is
\* open.
C13_StatusAndContractOnlyByAccept ==
    [][/\ (\E j \in DOMAIN projects \cap DOMAIN projects' :
              projects'[j].status # projects[j].status) => AcceptCommits
       /\ Len(contracts') > Len(contracts) => AcceptCommits
       /\ \A j \in DOMAIN projects' \ DOMAIN projects :
              projects'[j].status = "open"]_vars

\* ---- C14 ----
\* C14: a step of a request to reject a proposal changes nothing but the
\* status of that proposal, which it sets to rejected when it answers OK:
\* the projects, the contracts, the other proposals and the other fields
\* of the proposal are as before.
C14_RejectChangesOnlyTheProposal ==
    [][\A req \in Requests :
          /\ Acting(req) /\ req.action = "update_status"
          /\ req.new_status = "rejected"
          => /\ UNCHANGED <<projects, contracts, project_seq, proposal_seq>>
             /\ \A d \in BagToSet(requests') :
                    Added(d) =>
                        IF d.resp = "OK"
                        THEN /\ req.pk \in DOMAIN proposals
                             /\ proposals' = [proposals EXCEPT
                                                 ![req.pk].status = "rejected"]
                        ELSE proposals' = proposals]_vars

\* a proposal has been rejected and another proposal of the project, by
\* the other freelancer, is still pending, on a project that is still open
C14_Witness ==
    \E d \in Responses :
        /\ d.action = "update_status" /\ d.new_status = "rejected"
        /\ d.resp = "OK"
        /\ proposals[d.pk].status = "rejected"
        /\ projects[d.project].status = "open"
        /\ contracts = <<>>
        /\ \E q \in DOMAIN proposals \ {d.pk} :
               proposals[q].project = d.project /\ proposals[q].status = "pending"

\* ---- C15 ----
\* C15: the step in which an accept commits adds the Contract of the
\* project, sets the project in_progress and the proposal accepted, rejects
\* every other proposal of the project that is in the table and pending,
\* and neither adds nor removes a row of the Proposal table: a proposal
\* withdrawn before the commit stays deleted.
C15_CommitAfterWithdraw ==
    [][\A req \in Requests :
          /\ Acting(req) /\ req.action = "update_status"
          /\ req.new_status = "accepted"
          /\ \E d \in BagToSet(requests') : Added(d) /\ d.resp = "OK"
          => /\ DOMAIN proposals' = DOMAIN proposals
             /\ req.pk \in DOMAIN proposals
             /\ proposals'[req.pk].status = "accepted"
             /\ Cardinality(ContractsOf(contracts', req.project)) = 1
             /\ ContractsOf(contracts, req.project) = {}
             /\ projects'[req.project].status = "in_progress"
             /\ \A p \in DOMAIN proposals \ {req.pk} :
                    proposals'[p] =
                        IF proposals[p].project = req.project
                           /\ proposals[p].status = "pending"
                        THEN [proposals[p] EXCEPT !.status = "rejected"]
                        ELSE proposals[p]]_vars

\* a pending proposal has been withdrawn while the accept of another
\* proposal of the same project is inside its atomic block, the Contract
\* inserted and not yet committed
C15_Witness ==
    \E d \in Responses :
        /\ d.action = "destroy" /\ d.resp = "NoContent"
        /\ d.pk \notin DOMAIN proposals
        /\ \E q \in Requests :
               /\ q.action = "update_status" /\ q.new_status = "accepted"
               /\ q.pc = "created"
               /\ q.project = d.project /\ q.pk # d.pk
               /\ q.pk \in DOMAIN proposals

\* ---- C16 ----
\* C16: a request to the contract endpoint with an unsafe method is
\* answered MethodNotAllowed and changes no table; and a Contract that is
\* in the table before a step is in the table after it, with the same
\* project, freelancer and agreed rate, unless the step deletes its project.
C16_ContractNeverChanges ==
    [][/\ \A d \in BagToSet(requests') :
             Added(d) /\ d.action = "contract_write" =>
                 d.resp = "MethodNotAllowed" /\ UNCHANGED db
       /\ \A i \in 1 .. Len(contracts) :
             \/ \E k \in 1 .. Len(contracts') : contracts'[k] = contracts[i]
             \/ \E req \in Requests :
                    /\ Acting(req) /\ req.action = "project_destroy"
                    /\ req.project = contracts[i].project]_vars

\* a DELETE on the contract endpoint has been refused and the Contract is
\* there
C16_Witness ==
    \E d \in Responses :
        /\ d.action = "contract_write" /\ d.detail = "DELETE"
        /\ d.resp = "MethodNotAllowed"
        /\ Len(contracts) = 1

\* ---- C17 ----
\* C17: a request to create a project stores a project only for a client,
\* who becomes its client, and is refused with PermissionDenied for any
\* other user; a request to create a proposal reaches its insert only for
\* a freelancer who is not the client of the project, and a proposal is
\* stored only for such a requester; a create that is refused changes no
\* table.
C17_CreateByRole ==
    [][/\ \A d \in BagToSet(requests') :
             Arrives(d) /\ d.action = "project_create" =>
                 IF d.user \in Clients
                 THEN /\ d.resp = "Created"
                      /\ d.project \notin DOMAIN projects
                      /\ DOMAIN projects' = DOMAIN projects \cup {d.project}
                      /\ projects'[d.project].client = d.user
                 ELSE d.resp = "PermissionDenied" /\ UNCHANGED db
       /\ \A d \in BagToSet(requests') :
             Arrives(d) /\ d.action = "create" =>
                 /\ UNCHANGED db
                 /\ d.user \notin Freelancers =>
                        d.pc = "done" /\ d.resp = "PermissionDenied"
                 /\ d.pc = "save" =>
                        /\ d.user \in Freelancers
                        /\ projects[d.project].client # d.user
       /\ \A req \in Requests :
             Acting(req) /\ req.action = "create" =>
                 /\ req.user \in Freelancers
                 /\ \A d \in BagToSet(requests') :
                        Added(d) /\ d.resp # "Created" => UNCHANGED db]_vars

\* a client has asked to create a proposal for the project of another
\* client and has been refused
C17_Witness ==
    \E d \in Responses :
        /\ d.action = "create" /\ d.resp = "PermissionDenied"
        /\ d.user \in Clients
        /\ d.project \in DOMAIN projects
        /\ projects[d.project].client # d.user
        /\ DOMAIN proposals = {}

\* ---- C18 ----

ProjectWrites == {"project_update", "project_destroy"}

\* C18: a request to edit or to delete a project from a user who is not
\* its client is refused at once, with NotFound or PermissionDenied, and
\* changes no table; and a step of an edit or of a delete that changes the
\* Project table is a step of a request of the project's client.
C18_OnlyTheOwnerWritesTheProject ==
    [][/\ \A d \in BagToSet(requests') :
             /\ Arrives(d) /\ d.action \in ProjectWrites
             /\ d.project \in DOMAIN projects
             /\ projects[d.project].client # d.user
             => /\ d.pc = "done"
                /\ d.resp \in {"NotFound", "PermissionDenied"}
                /\ UNCHANGED db
       /\ \A req \in Requests :
             /\ Acting(req) /\ req.action \in ProjectWrites
             /\ projects' # projects
             => IF req.project \in DOMAIN projects
                THEN projects[req.project].client = req.user
                ELSE projects'[req.project].client = req.user]_vars

\* a freelancer who can see the project has asked to delete it and has
\* been refused
C18_Witness ==
    \E d \in Responses :
        /\ d.action = "project_destroy" /\ d.resp = "PermissionDenied"
        /\ d.user \in Freelancers
        /\ d.project \in DOMAIN projects

\* ---- C19 ----
\* C19: in every reachable state the projects a client can address are
\* the projects whose client they are, and the projects a freelancer can
\* address are the open projects together with the projects for which they
\* have a proposal or a contract.
C19_ProjectsVisible ==
    \A u \in Users :
        VisibleProjects(projects, proposals, contracts, u) =
            IF u \in Clients
            THEN {j \in DOMAIN projects : projects[j].client = u}
            ELSE {j \in DOMAIN projects :
                     \/ projects[j].status = "open"
                     \/ \E p \in DOMAIN proposals :
                            proposals[p].project = j /\ proposals[p].freelancer = u
                     \/ \E i \in 1 .. Len(contracts) :
                            contracts[i].project = j /\ contracts[i].freelancer = u}

\* a project that is not open is visible to the freelancer of its
\* contract, who has no proposal left, not to the other freelancer and
\* not to the other client
C19_Witness ==
    \E j \in DOMAIN projects :
        /\ projects[j].status = "in_progress"
        /\ DOMAIN proposals = {}
        /\ \E i \in 1 .. Len(contracts) :
               /\ contracts[i].project = j
               /\ VisibleProjects(projects, proposals, contracts,
                                  contracts[i].freelancer) = {j}
        /\ \E f \in Freelancers :
               VisibleProjects(projects, proposals, contracts, f) = {}
        /\ VisibleProjects(projects, proposals, contracts, "c2") = {}
        /\ VisibleProjects(projects, proposals, contracts, "c1") = {j}

\* ---- C20 ----
\* C20: in every reachable state the proposals a freelancer can address
\* are the proposals whose freelancer they are, and the proposals a client
\* can address are the proposals for the projects whose client they are.
C20_ProposalsVisible ==
    \A u \in Users :
        VisibleProposals(proposals, projects, u) =
            IF u \in Freelancers
            THEN {p \in DOMAIN proposals : proposals[p].freelancer = u}
            ELSE {p \in DOMAIN proposals :
                     \E j \in DOMAIN projects :
                         proposals[p].project = j /\ projects[j].client = u}

\* two freelancers have a proposal each for the project of c1: each sees
\* their own, c1 sees both and c2 sees none
C20_Witness ==
    /\ Cardinality(DOMAIN proposals) = 2
    /\ \A f \in Freelancers :
           Cardinality(VisibleProposals(proposals, projects, f)) = 1
    /\ VisibleProposals(proposals, projects, "c1") = DOMAIN proposals
    /\ VisibleProposals(proposals, projects, "c2") = {}

\* ---- C21 ----
\* the contracts of which user u is a party: the client of the contract's
\* project or the contract's freelancer
PartyTo(u) ==
    {i \in 1 .. Len(contracts) :
        \/ projects[contracts[i].project].client = u
        \/ contracts[i].freelancer = u}

\* C21 as stated: the contracts a user is shown are exactly those of which
\* the user is the project's client or the freelancer.
C21_ContractsOfParties ==
    \A d \in Responses :
        d.action = "contract_list" => d.rows = PartyTo(d.user)

\* C21: a user with a client or freelancer profile is shown exactly the
\* contracts of which the user is the project's client or the freelancer;
\* a staff user without a profile is shown every contract; any other user
\* without a profile is shown none.
C21_ContractsOfPartiesOrStaff ==
    \A d \in Responses :
        d.action = "contract_list"
        => d.rows = IF user_type(d.user) # "" THEN PartyTo(d.user)
                    ELSE IF is_staff(d.user) THEN 1 .. Len(contracts)
                    ELSE {}

\* there are two contracts, of two freelancers, for a project of c1 and a
\* project of a1: c1 has listed the contracts and is shown that of their
\* project only
C21_Witness ==
    \E d \in Responses :
        /\ d.action = "contract_list" /\ d.user = "c1"
        /\ Len(contracts) = 2
        /\ contracts[1].freelancer # contracts[2].freelancer
        /\ projects[contracts[1].project].client = "c1"
        /\ projects[contracts[2].project].client = "a1"
        /\ d.rows = {1}

\* ---- C22 ----
\* C22: a staff user who lists the projects is shown every project, and a
\* staff user who lists the proposals is shown every proposal, whether the
\* user has no profile, a client profile or a freelancer profile.
C22_StaffSeesAll ==
    \A d \in Responses :
        is_staff(d.user)
        => /\ d.action = "project_list" => d.rows = DOMAIN projects
           /\ d.action = "proposal_list" => d.rows = DOMAIN proposals

\* ---- C23 ----
\* the step ends an update_status request with status accepted as d
AcceptEnds(d) ==
    /\ Added(d) /\ d.pc = "done"
    /\ d.action = "update_status" /\ d.new_status = "accepted"
    /\ d.resp \in {"OK", "ServerError"}

RejectedByStep ==
    {p \in DOMAIN proposals \cap DOMAIN proposals' :
        proposals[p].status = "pending" /\ proposals'[p].status = "rejected"}

\* C24: the step that commits an accept makes visible a ProposalAccepted
\* notification for the accepted proposal, a ProposalRejected notification
\* for each proposal the step rejects, a ProjectInProgress notification
\* for the project, and no other.
C24_AcceptEmitsAll ==
    [][\A d \in BagToSet(requests') :
          AcceptEnds(d) /\ d.resp = "OK"
          => d.events = {<<"ProposalAccepted", d.pk>>,
                         <<"ProjectInProgress", d.project>>}
                        \cup {<<"ProposalRejected", p>> : p \in RejectedByStep}]_vars

\* ---- C25 ----
\* the accepted proposals of project j
AcceptedOn(j) ==
    {p \in DOMAIN proposals :
        proposals[p].project = j /\ proposals[p].status = "accepted"}

\* C25: in every reachable state, project j has a Contract if and only if
\* exactly one proposal of j is accepted, and the freelancer and the rate of
\* the Contract are those of that proposal.
C25_ContractIffOneAccepted ==
    \A j \in 1 .. MaxProjects :
        /\ ContractsOf(contracts, j) # {} <=> Cardinality(AcceptedOn(j)) = 1
        /\ \A i \in ContractsOf(contracts, j), p \in AcceptedOn(j) :
               /\ contracts[i].freelancer = proposals[p].freelancer
               /\ contracts[i].agreed_rate = proposals[p].proposed_rate

\* ---- C26 ----
\* C26: in every reachable state a project is in_progress if and only if
\* it has a Contract, and the only change of a project's status is from
\* open to in_progress.
C26_InProgressIffContract ==
    /\ [](\A j \in DOMAIN projects :
             projects[j].status = "in_progress"
                 <=> ContractsOf(contracts, j) # {})
    /\ [][\A j \in DOMAIN projects \cap DOMAIN projects' :
             projects'[j].status # projects[j].status
                 => /\ projects[j].status = "open"
                    /\ projects'[j].status = "in_progress"]_vars

\* ---- C27 ----
\* C27: in every reachable state every pending proposal is on a project
\* that is open.
C27_PendingOnlyOnOpenProject ==
    \A p \in DOMAIN proposals :
        /\ proposals[p].status = "pending"
        /\ proposals[p].project \in DOMAIN projects
        => projects[proposals[p].project].status = "open"

\* ---- C28 ----
\* C28: no step changes the project or the freelancer of a proposal.
C28_ProjectAndFreelancerFixed ==
    [][\A p \in DOMAIN proposals \cap DOMAIN proposals' :
          /\ proposals'[p].project = proposals[p].project
          /\ proposals'[p].freelancer = proposals[p].freelancer]_vars

\* ---- C29 ----
\* C29: an update_status request of the project's client with a status
\* other than accepted or rejected ends at once with the error "invalid
\* status", whatever the status of the proposal, and changes no proposal,
\* project or contract.
C29_InvalidStatusRefused ==
    [][\A d \in BagToSet(requests') :
          /\ Arrives(d) /\ d.action = "update_status"
          /\ d.pk \in DOMAIN proposals
          /\ projects[proposals[d.pk].project].client = d.user
          /\ d.new_status \notin {"accepted", "rejected"}
          => /\ d.pc = "done"
             /\ d.resp = "BadRequest"
             /\ d.detail = "invalid status"
             /\ UNCHANGED db]_vars

\* the client has asked to set a pending proposal of an open project back
\* to pending, and has been refused
C29_Witness ==
    \E d \in Responses :
        /\ d.action = "update_status" /\ d.new_status = "pending"
        /\ d.resp = "BadRequest" /\ d.detail = "invalid status"
        /\ d.pk \in DOMAIN proposals /\ proposals[d.pk].status = "pending"
        /\ projects[proposals[d.pk].project].client = d.user
        /\ projects[proposals[d.pk].project].status = "open"

====
